---------------------------- MODULE Spec2Model ----------------------------
(***************************************************************************)
(* Model of the worker runtime of mathiaHT/mcai_worker_sdk.                *)
(*                                                                         *)
(* The repository holds two generations of the worker entry point:         *)
(*   - src/src/lib.rs: start_worker of the AMQP worker, which connects to  *)
(*     the broker, consumes the job queue and, per delivery, calls the     *)
(*     handler, publishes a response and settles the delivery;             *)
(*   - src/rs_mcai_worker_sdk/src/lib.rs: start_worker of the SDK, which   *)
(*     wires a Processor to a LocalExchange or a RabbitmqExchange.         *)
(* The variable `program` says which of the two is running.                *)
(***************************************************************************)
EXTENDS Integers, Sequences, FiniteSets, TLC

(* ------------------------------ bounds -------------------------------- *)

\* Orders initially waiting in the job queue carry job ids 1..MaxJobs.
MaxJobs == 2

\* Total number of deliveries the broker hands to the consumer (redeliveries
\* included); caps the otherwise unbounded requeue loop.
MaxDeliveries == 2

\* Number of passes of the `loop` of start_worker.
MaxEpochs == 2

\* Number of order files in SOURCE_ORDERS.
MaxFiles == 2

\* Number of progressions one call of process publishes.
MaxProgress == 2

\* Largest nb_frames create_xdcam_sample_file is called with.
MaxFrames == 3

JobIds == 1..MaxJobs

(* ------------------------------ state --------------------------------- *)

VARIABLES
  program,          \* what runs: start_worker of "amqp_worker" or of "sdk", a
                    \* direct call of process ("test"), or the media test
                    \* helper ("media_test")
  overrides,        \* whether the user's handler overrides MessageEvent::process
  pc,               \* position of start_worker (src/src/lib.rs)
  epoch,            \* passes of the loop started so far
  chan,             \* the AMQP channel `ch`: "none", "open" or "closed"
  qos,              \* whether basic_qos(prefetch_count = 1) took effect
  job_queue,        \* broker: orders ready in amqp_queue
  unacked,          \* broker: deliveries handed out and not settled
  stream,           \* consumer stream: deliveries received, closure not yet run
  message,          \* the delivery the for_each closure is handling (0: none)
  result,           \* what MessageEvent::process returned for `message`
  published,        \* whether the basic_publish of this delivery succeeded
  completed_queue,  \* broker: bodies in amqp_completed_queue
  error_queue,      \* broker: bodies in amqp_error_queue
  deliveries,       \* history: delivery id -> [order]
  hist,             \* history: the calls the closure made, in order
  amqp_uri,         \* the locals amqp_tls and amqp_uri of the current pass
  setup,            \* the queue_declare and basic_consume calls made on the
                    \* channel of the current pass, in order
  sdk_pc,           \* position of start_worker (rs_mcai_worker_sdk/src/lib.rs)
  describe,         \* the value read from DESCRIBE ("unset" when absent)
  printed,          \* DESCRIBE: "yes" the configuration was printed, "error" its
                    \* serialization error was logged, "no" neither
  init_calls,       \* number of calls of message_event.init()
  source_orders,    \* what get_source_orders() returned
  file_idx,         \* index of `source_order` in the for loop
  exchange,         \* the exchange constructed: "none", "local" or "rabbitmq"
  orders,           \* LocalExchange: the order channel
  responses,        \* LocalExchange: the response channel
  observed,         \* the responses next_response() has returned so far
  processor,        \* the Processor's job state: [state, job]
  progress,         \* progressions published by the running process call
  sdk_epoch,        \* passes of the broker supervision loop started
  sdk_calls,        \* history: the calls of MessageEvent::process, with results
  exit,             \* how start_worker stopped: [cause, status]
  stop_epoch,       \* the pass in which a StopWorker order ended the run (0: none)
  sent,             \* history: the orders send_order() was given, in order
  locks,            \* lock() calls on the handler's mutex: <<mutex, thread,
                    \* held>>, held = FALSE while the thread is blocked in
                    \* lock(), TRUE while its guard is alive
  bound,            \* the consumers bound on the exchange of the current
                    \* pass: [queue, tag], in order
  call_args,        \* a direct call of process: its arguments
  call_ret,         \* a direct call of process: what it returned
  media             \* create_xdcam_sample_file: its position, the encoder and
                    \* the calls of flush_encoder made so far

amqp_vars == <<pc, epoch, chan, qos, job_queue, unacked, stream, message,
               result, published, completed_queue, error_queue, deliveries,
               hist, amqp_uri, setup>>

sdk_vars == <<sdk_pc, describe, printed, init_calls, source_orders, file_idx,
              exchange, orders, responses, observed, processor, progress,
              sdk_epoch, sdk_calls, exit, stop_epoch, sent, locks, bound>>

call_vars == <<call_args, call_ret>>

vars == <<program, overrides, amqp_vars, sdk_vars, call_vars, media>>

NoResult == [kind |-> "none"]

\* Before the pass has built its AMQPUri.
NoUri == [env |-> "none", amqp_tls |-> FALSE, scheme |-> "none"]

\* start_worker is running.
NoExit == [cause |-> "none", status |-> -1]

\* `return;` in start_worker, which returns (): the function hands no status
\* to its caller, and a main that ends after it exits with status 0.
Return(cause) == [cause |-> cause, status |-> 0]

\* An unwrap() on Err: the thread panics, and a process whose main thread
\* panicked exits with status 101.
Panic == [cause |-> "panic", status |-> 101]

(* --------------------------- MessageError ----------------------------- *)

\* src/src/lib.rs: enum MessageError, and Ok(job_id) of process.
Ok(job_id) == [kind |-> "Ok", job_id |-> job_id]
RuntimeError(msg) == [kind |-> "RuntimeError", msg |-> msg]
ProcessingError(job_id, msg) ==
  [kind |-> "ProcessingError", job_id |-> job_id, msg |-> msg]
RequirementsError(msg) == [kind |-> "RequirementsError", msg |-> msg]
NotImplemented == [kind |-> "NotImplemented"]

\* The job ids a user-written process may return for the message `data`: the
\* one of the order, or another one.
ReturnedJobIds(data) == {data.job, (data.job % MaxJobs) + 1}

\* Everything a user-written process may return for the message `data`: one
\* value of each error with a message, the two messages being different.
ProcessResults(data) ==
  {Ok(n) : n \in ReturnedJobIds(data)}
    \cup {ProcessingError(n, "e1") : n \in ReturnedJobIds(data)}
    \cup {RuntimeError("e2")}
    \cup {RequirementsError("e1")}
    \cup {NotImplemented}

\* The provided method of trait MessageEvent: the body a handler inherits
\* when it does not override process.
process_default(data) == NotImplemented

\* MessageEvent::process(message_event, data): the results the call can have.
process(data) ==
  IF overrides THEN ProcessResults(data) ELSE {process_default(data)}


(* ------------------ the for_each closure's decisions ------------------ *)

\* Whether the arm of `match MessageEvent::process(..)` calls basic_publish.
publishes(r) == r.kind \in {"Ok", "ProcessingError", "RuntimeError"}

\* Mutant: every arm publishes to amqp_error_queue.
publish_queue_error(r) == "error"

\* The queue the arm publishes to: amqp_completed_queue or amqp_error_queue.
publish_queue(r) == IF r.kind = "Ok" THEN "completed" ELSE "error"

\* Mutant: the RuntimeError arm builds the body of the ProcessingError arm
\* (with job_id 0), and the ProcessingError arm drops the message.
json_body_mixed(r) ==
  CASE r.kind = "Ok" -> [job_id |-> r.job_id, status |-> "completed"]
    [] r.kind = "ProcessingError" -> [status |-> "error", job_id |-> r.job_id]
    [] r.kind = "RuntimeError" ->
         [status |-> "error", job_id |-> 0, message |-> r.msg]

\* The json!({..}) body the arm builds.
json_body(r) ==
  CASE r.kind = "Ok" -> [job_id |-> r.job_id, status |-> "completed"]
    [] r.kind = "ProcessingError" ->
         [status |-> "error", job_id |-> r.job_id, message |-> r.msg]
    [] r.kind = "RuntimeError" -> [status |-> "error", message |-> r.msg]

\* The settlement call the arm ends with, given whether its publish succeeded:
\* basic_ack(delivery_tag, false) or
\* basic_reject(delivery_tag, BasicRejectOptions{requeue: true}).
basic_ack == [op |-> "ack", requeue |-> FALSE]
\* Mutant: BasicRejectOptions{requeue: false}.
basic_reject_no_requeue == [op |-> "reject", requeue |-> FALSE]

basic_reject == [op |-> "reject", requeue |-> TRUE]

\* Mutant: the arms that do not publish end without settling.
settlement_unsettled(r, publish_ok) ==
  IF publishes(r)
    THEN (IF publish_ok THEN <<basic_ack>> ELSE <<basic_reject>>)
    ELSE <<>>

\* Mutant: the publishing arms acknowledge whatever the publish returned.
settlement_ack_always(r, publish_ok) ==
  IF publishes(r) THEN <<basic_ack>> ELSE <<basic_reject>>

\* Mutant: the test of the publish result is inverted.
settlement_inverted(r, publish_ok) ==
  IF publishes(r)
    THEN (IF publish_ok THEN <<basic_reject>> ELSE <<basic_ack>>)
    ELSE <<basic_reject>>

\* Mutant: the RequirementsError arm acknowledges.
settlement_requirements_ack(r, publish_ok) ==
  IF publishes(r)
    THEN (IF publish_ok THEN <<basic_ack>> ELSE <<basic_reject>>)
    ELSE (IF r.kind = "RequirementsError" THEN <<basic_ack>> ELSE <<basic_reject>>)

\* Mutant: the NotImplemented arm acknowledges.
settlement_not_implemented_ack(r, publish_ok) ==
  IF publishes(r)
    THEN (IF publish_ok THEN <<basic_ack>> ELSE <<basic_reject>>)
    ELSE (IF r.kind = "NotImplemented" THEN <<basic_ack>> ELSE <<basic_reject>>)

\* Mutant: the RuntimeError arm ends after its publish without settling.
settlement_runtime_unsettled(r, publish_ok) ==
  IF r.kind = "RuntimeError" THEN <<>>
  ELSE IF publishes(r)
    THEN (IF publish_ok THEN <<basic_ack>> ELSE <<basic_reject>>)
    ELSE <<basic_reject>>

\* The calls are given as a sequence: each arm makes exactly one.
settlement(r, publish_ok) ==
  IF publishes(r)
    THEN (IF publish_ok THEN <<basic_ack>> ELSE <<basic_reject>>)
    ELSE <<basic_reject>>

(* ------------------------------ broker -------------------------------- *)

\* The orders of the deliveries ds, oldest first.
RECURSIVE OrdersOf(_)
OrdersOf(ds) ==
  IF ds = {} THEN <<>>
  ELSE LET d == CHOOSE x \in ds : \A y \in ds : x <= y
       IN <<deliveries[d].order>> \o OrdersOf(ds \ {d})

\* AMQP: a requeued message goes back to the head of its queue.
Requeue(ds) == OrdersOf(ds) \o job_queue

\* An order as the broker holds it: the job it is for, and whether its body
\* is valid UTF-8 (std::str::from_utf8 of the closure fails otherwise).
Order(j, utf8) == [job |-> j, utf8 |-> utf8]

Event(op, d, arg, ok) == [op |-> op, d |-> d, arg |-> arg, ok |-> ok]

(* --------------------- start_worker (src/src/lib.rs) ------------------- *)

\* Values of the environment variable AMQP_TLS ("unset": absent).
AmqpTlsValues == {"unset", "true", "1", "TRUE", "True", "false"}

\* config::get_amqp_tls(): the documented values enable TLS.
get_amqp_tls(v) == v \in {"true", "1", "TRUE", "True"}

\* The scheme of the AMQPUri the pass builds: `scheme: AMQPScheme::AMQP`.
amqp_scheme(amqp_tls) == "AMQP"

\* The head of a pass of the `loop`: the get_amqp_*() calls, the info! lines
\* and the AMQPUri.
BuildUri ==
  /\ program = "amqp_worker"
  /\ pc = "connect"
  /\ epoch < MaxEpochs
  /\ \E v \in AmqpTlsValues :
       amqp_uri' = [env |-> v,
                    amqp_tls |-> get_amqp_tls(v),
                    scheme |-> amqp_scheme(get_amqp_tls(v))]
  /\ pc' = "connect_uri"
  /\ UNCHANGED <<program, overrides, sdk_vars, call_vars, media, setup, epoch, chan, qos,
                 job_queue, unacked, stream, message, result, published,
                 completed_queue, error_queue, deliveries, hist>>

\* connect_uri (the AMQPUri is moved into it), create_channel and basic_qos.
\* A failure of qos is only logged; a failure of connect_uri or create_channel
\* makes block_on_all return Err.
Connect ==
  /\ program = "amqp_worker"
  /\ pc = "connect_uri"
  /\ epoch' = epoch + 1
  /\ amqp_uri' = NoUri
  /\ \/ /\ pc' = "sleep"
        /\ UNCHANGED <<chan, qos>>
     \/ /\ pc' = "setup"
        /\ chan' = "open"
        /\ qos' \in BOOLEAN
  /\ stream' = <<>>
  /\ UNCHANGED <<program, overrides, sdk_vars, call_vars, media, setup, job_queue, unacked, message, result,
                 published, completed_queue, error_queue, deliveries, hist>>

\* A call on the channel, as `setup` records it.
queue_declare(queue) == [op |-> "queue_declare", arg |-> queue]
basic_consume(tag) == [op |-> "basic_consume", arg |-> tag]

\* Mutant: the consumer is started before the queues are declared.
channel_setup_consume_first ==
  << << basic_consume("amqp_worker") >>,
     << queue_declare("amqp_completed_queue"),
        queue_declare("amqp_error_queue"),
        queue_declare("amqp_queue") >> >>

\* The calls that follow basic_qos on the channel, in the order of the code,
\* grouped as the code runs them: the three queue_declare (completed, error,
\* job queue) are issued one after the other in the closure given to the
\* channel; basic_consume with the tag "amqp_worker" is chained by and_then
\* on the declaration of the job queue and runs when that one has completed.
channel_setup ==
  << << queue_declare("amqp_completed_queue"),
        queue_declare("amqp_error_queue"),
        queue_declare("amqp_queue") >>,
     << basic_consume("amqp_worker") >> >>

\* The calls of the first k groups of channel_setup, in order.
RECURSIVE SetupCalls(_)
SetupCalls(k) ==
  IF k = 0 THEN <<>> ELSE SetupCalls(k - 1) \o channel_setup[k]

\* The next group of calls of channel_setup. When it fails (the connection
\* dropped) block_on_all returns Err and the channel is gone; after the last
\* group `stream.for_each` starts.
ChannelSetup ==
  /\ program = "amqp_worker"
  /\ pc = "setup"
  /\ \/ \E k \in 1..Len(channel_setup) :
          /\ setup = SetupCalls(k - 1)
          /\ setup' = SetupCalls(k)
          /\ pc' = IF k = Len(channel_setup) THEN "listen" ELSE "setup"
          /\ UNCHANGED <<chan, qos>>
     \/ /\ setup' = <<>>
        /\ pc' = "sleep"
        /\ chan' = "closed"
        /\ qos' = FALSE
  /\ UNCHANGED <<program, overrides, sdk_vars, call_vars, media, epoch,
                 job_queue, unacked, stream, message, result, published,
                 completed_queue, error_queue, deliveries, hist, amqp_uri>>

\* The channel has a consumer on the job queue.
Consuming == \E i \in 1..Len(setup) : setup[i].op = "basic_consume"

\* The broker hands the next ready order to the consumer "amqp_worker". With
\* prefetch_count = 1 in effect it does so only when nothing is unsettled.
BrokerDeliver ==
  /\ program = "amqp_worker"
  /\ chan = "open"
  /\ Consuming
  /\ job_queue # <<>>
  /\ qos => unacked = {}
  /\ Len(deliveries) < MaxDeliveries
  /\ LET d == Len(deliveries) + 1 IN
       /\ deliveries' = Append(deliveries, [order |-> Head(job_queue)])
       /\ unacked' = unacked \cup {d}
       /\ stream' = Append(stream, d)
  /\ job_queue' = Tail(job_queue)
  /\ UNCHANGED <<program, overrides, sdk_vars, call_vars, media, setup, pc, epoch, chan, qos, message, result,
                 published, completed_queue, error_queue, hist,
                 amqp_uri>>

\* The connection drops: the channel is closed and the broker requeues what
\* the consumer had not settled.
ConnectionLost ==
  /\ program = "amqp_worker"
  /\ chan = "open"
  /\ Consuming
  /\ chan' = "closed"
  /\ job_queue' = Requeue(unacked)
  /\ unacked' = {}
  /\ UNCHANGED <<program, overrides, sdk_vars, call_vars, media, setup, pc, epoch, qos, stream, message, result,
                 published, completed_queue, error_queue, deliveries, hist,
                 amqp_uri>>

\* stream.for_each(move |message| ..): the closure starts on the next delivery
\* and decodes it with std::str::from_utf8(&message.data).unwrap().
Receive ==
  /\ program = "amqp_worker"
  /\ pc = "listen"
  /\ stream # <<>>
  /\ message' = Head(stream)
  /\ stream' = Tail(stream)
  /\ \/ /\ deliveries[Head(stream)].order.utf8
        /\ pc' = "process"
        /\ UNCHANGED <<chan, job_queue, unacked>>
     \/ /\ ~deliveries[Head(stream)].order.utf8
        /\ pc' = "panicked"
        /\ chan' = "closed"
        /\ job_queue' = Requeue(unacked)
        /\ unacked' = {}
  /\ UNCHANGED <<program, overrides, sdk_vars, call_vars, media, setup, epoch, qos, result, published,
                 completed_queue, error_queue, deliveries, hist,
                 amqp_uri>>

\* match MessageEvent::process(message_event, data)
Process ==
  /\ program = "amqp_worker"
  /\ pc = "process"
  /\ \E r \in process(deliveries[message].order) :
       /\ result' = r
       /\ hist' = Append(hist, Event("process", message, r, TRUE))
       /\ pc' = IF publishes(r) THEN "publish" ELSE "settle"
  /\ UNCHANGED <<program, overrides, sdk_vars, call_vars, media, setup, epoch, chan, qos, job_queue, unacked,
                 stream, message, published, completed_queue, error_queue,
                 deliveries,
                 amqp_uri>>

\* ch.basic_publish("", queue, body, ..).wait(): the call fails when the
\* channel is closed.
Publish ==
  /\ program = "amqp_worker"
  /\ pc = "publish"
  /\ LET q == publish_queue(result)
         body == json_body(result)
         ok == chan = "open"
     IN   /\ published' = ok
          /\ hist' = Append(hist, Event("publish", message, [queue |-> q, body |-> body], ok))
          /\ completed_queue' =
               IF ok /\ q = "completed" THEN Append(completed_queue, body)
               ELSE completed_queue
          /\ error_queue' =
               IF ok /\ q = "error" THEN Append(error_queue, body)
               ELSE error_queue
  /\ pc' = "settle"
  /\ UNCHANGED <<program, overrides, sdk_vars, call_vars, media, setup, epoch, chan, qos, job_queue, unacked,
                 stream, message, result, deliveries,
                 amqp_uri>>

\* ch.basic_ack(..).wait() or ch.basic_reject(..).wait(), which fails when the
\* channel is closed; the error is only logged. Then the closure returns
\* Ok(()).
Settle ==
  /\ program = "amqp_worker"
  /\ pc = "settle"
  /\ LET calls == settlement(result, published)
         ok == chan = "open"
         settled == ok /\ calls # <<>> /\ message \in unacked
     IN
         /\ hist' = hist \o [i \in 1..Len(calls) |->
                       Event(calls[i].op, message, [requeue |-> calls[i].requeue], ok)]
         /\ unacked' = IF settled THEN unacked \ {message} ELSE unacked
         /\ job_queue' =
              IF settled /\ calls[1].op = "reject" /\ calls[1].requeue
                THEN Requeue({message})
                ELSE job_queue
  /\ pc' = "listen"
  /\ message' = 0
  /\ result' = NoResult
  /\ published' = FALSE
  /\ UNCHANGED <<program, overrides, sdk_vars, call_vars, media, setup, epoch, chan, qos, stream,
                 completed_queue, error_queue, deliveries,
                 amqp_uri>>

\* The stream ends with a transport error: block_on_all returns, the channel
\* of the pass is dropped, `state` is logged.
StreamEnd ==
  /\ program = "amqp_worker"
  /\ pc = "listen"
  /\ chan = "closed"
  /\ pc' = "sleep"
  /\ stream' = <<>>
  /\ setup' = <<>>
  /\ qos' = FALSE
  /\ UNCHANGED <<program, overrides, sdk_vars, call_vars, media, epoch, chan, job_queue, unacked,
                 message, result, published, completed_queue, error_queue,
                 deliveries, hist,
                 amqp_uri>>

\* thread::sleep(Duration::new(1, 0)), then the next pass of the loop.
Sleep ==
  /\ program = "amqp_worker"
  /\ pc = "sleep"
  /\ pc' = "connect"
  /\ chan' = "none"
  /\ UNCHANGED <<program, overrides, sdk_vars, call_vars, media, setup, epoch, qos, job_queue, unacked, stream,
                 message, result, published, completed_queue, error_queue,
                 deliveries, hist,
                 amqp_uri>>

(* ------------- start_worker (rs_mcai_worker_sdk/src/lib.rs) ------------ *)

\* Values of the environment variable DESCRIBE ("unset": std::env::var fails).
DescribeValues == {"unset", "1", "TRUE", "false", "yes"}

\* str::to_lowercase on the values above.
to_lowercase(v) == IF v = "TRUE" THEN "true" ELSE v

\* Mutant: the value is compared without to_lowercase().
describe_enabled_case_sensitive(v) == v \in {"1", "true"}

\* enabled == "1" || bool::from_str(&enabled.to_lowercase()).unwrap_or(false)
describe_enabled(v) ==
  /\ v # "unset"
  /\ \/ v = "1"
     \/ to_lowercase(v) = "true"

\* An order file of SOURCE_ORDERS: the job it holds, and whether it can be
\* read (fs::read_to_string) and parsed (job::Job::new).
OrderFiles == [job : 1..MaxFiles, content : {"ok", "unreadable", "malformed"}]

\* What get_source_orders() returns: None, or Some(paths). The file at
\* position k holds the job with id k.
SourceOrders ==
  {[set |-> FALSE, files |-> <<>>]}
    \cup {[set |-> TRUE, files |-> fs] :
            fs \in {f \in UNION {[1..n -> OrderFiles] : n \in 0..MaxFiles} :
                      \A k \in DOMAIN f : f[k].job = k}}

InitProcess(j) == [type |-> "InitProcess", job |-> j]
StartProcess(j) == [type |-> "StartProcess", job |-> j]

Initialized(j) == [type |-> "Initialized", job |-> j]
Started(j) == [type |-> "Started", job |-> j]
Progression(j) == [type |-> "Progression", job |-> j]
Completed(j) == [type |-> "Completed", job |-> j]
Error(j, e) == [type |-> "Error", job |-> j, error |-> e]

Idle == [state |-> "idle", job |-> 0]

\* job::JobResult::new(job_id)
JobResult(j) == [job_id |-> j, status |-> "unknown"]

\* Mutant: the provided method succeeds when it is given a channel.
sdk_process_default_ok(channel, parameters, job_result) ==
  IF channel = "Some" THEN Ok(job_result.job_id) ELSE NotImplemented

\* The provided method MessageEvent::process of the SDK's trait.
sdk_process_default(channel, parameters, job_result) == NotImplemented

\* What a user-written process may return for job_result.
SdkProcessResults(job_result) ==
  {Ok(job_result.job_id)}
    \cup {ProcessingError(job_result.job_id, "e1")}
    \cup {RuntimeError("e2")}
    \cup {RequirementsError("e1")}
    \cup {NotImplemented}

\* message_event.process(channel, parameters, job_result): its possible results.
sdk_process(channel, parameters, job_result) ==
  IF overrides THEN SdkProcessResults(job_result)
  ELSE {sdk_process_default(channel, parameters, job_result)}

\* worker::WorkerConfiguration::new(..); an Err is logged and start_worker
\* returns.
SdkConfigure ==
  /\ program = "sdk"
  /\ sdk_pc = "config"
  /\ \E ok \in BOOLEAN :
       /\ sdk_pc' = IF ok THEN "describe" ELSE "returned"
       /\ exit' = IF ok THEN exit ELSE Return("config")
  /\ UNCHANGED <<program, overrides, amqp_vars, call_vars, media, bound, describe, printed,
                 init_calls, source_orders, file_idx, exchange, orders,
                 responses, observed, processor, progress, sdk_epoch,
                 sdk_calls,
                 stop_epoch, sent, locks>>

\* if let Ok(enabled) = std::env::var("DESCRIBE") { .. }: print the serialized
\* configuration and return; a serialization error is logged and startup
\* goes on.
SdkDescribe ==
  /\ program = "sdk"
  /\ sdk_pc = "describe"
  /\ \E v \in DescribeValues, serialized \in BOOLEAN :
       /\ describe' = v
       /\ printed' = IF ~describe_enabled(v) THEN "no"
                     ELSE IF serialized THEN "yes" ELSE "error"
       /\ sdk_pc' = IF describe_enabled(v) /\ serialized THEN "returned" ELSE "init"
       /\ exit' = IF describe_enabled(v) /\ serialized THEN Return("describe") ELSE exit
  /\ UNCHANGED <<program, overrides, amqp_vars, call_vars, media, bound, init_calls,
                 source_orders, file_idx, exchange, orders, responses,
                 observed, processor, progress, sdk_epoch, sdk_calls,
                 stop_epoch, sent, locks>>

\* Mutant: the error of init() is logged and startup goes on.
SdkInit_error_logged ==
  /\ program = "sdk"
  /\ sdk_pc = "init"
  /\ init_calls' = init_calls + 1
  /\ \E ok \in BOOLEAN :
       /\ sdk_pc' = "mode"
       /\ exit' = IF ok THEN exit ELSE Return("init")
  /\ UNCHANGED <<program, overrides, amqp_vars, call_vars, media, bound, describe, printed,
                 source_orders, file_idx, exchange, orders, responses,
                 observed, processor, progress, sdk_epoch, sdk_calls,
                 stop_epoch, sent, locks>>

\* if let Err(message) = message_event.init() { ..; return; }
SdkInit ==
  /\ program = "sdk"
  /\ sdk_pc = "init"
  /\ init_calls' = init_calls + 1
  /\ \E ok \in BOOLEAN :
       /\ sdk_pc' = IF ok THEN "mode" ELSE "returned"
       /\ exit' = IF ok THEN exit ELSE Return("init")
  /\ UNCHANGED <<program, overrides, amqp_vars, call_vars, media, bound, describe, printed,
                 source_orders, file_idx, exchange, orders, responses,
                 observed, processor, progress, sdk_epoch, sdk_calls,
                 stop_epoch, sent, locks>>

\* Mutant: the source orders are read, and the supervision loop is entered
\* whether or not they are set.
SdkMode_no_branch ==
  /\ program = "sdk"
  /\ sdk_pc = "mode"
  /\ \E so \in SourceOrders :
       /\ source_orders' = so
       /\ exchange' = IF so.set THEN "local" ELSE exchange
       /\ processor' = IF so.set THEN Idle ELSE processor
       /\ file_idx' = IF so.set THEN 1 ELSE file_idx
       /\ sdk_pc' = "loop"
  /\ UNCHANGED <<program, overrides, amqp_vars, call_vars, media, bound, describe, printed,
                 init_calls, orders, responses, observed, progress, sdk_epoch,
                 sdk_calls,
                 exit, stop_epoch, sent, locks>>

\* if let Some(source_orders) = get_source_orders(): LocalExchange::new() and
\* the spawned task running the Processor; otherwise the supervision loop.
SdkMode ==
  /\ program = "sdk"
  /\ sdk_pc = "mode"
  /\ \E so \in SourceOrders :
       /\ source_orders' = so
       /\ exchange' = IF so.set THEN "local" ELSE exchange
       /\ processor' = IF so.set THEN Idle ELSE processor
       /\ file_idx' = IF so.set THEN 1 ELSE file_idx
       /\ sdk_pc' = IF so.set THEN "for" ELSE "loop"
  /\ UNCHANGED <<program, overrides, amqp_vars, call_vars, media, bound, describe, printed,
                 init_calls, orders, responses, observed, progress, sdk_epoch,
                 sdk_calls,
                 exit, stop_epoch, sent, locks>>

\* Mutant: the two orders of a job are sent the other way round.
send_orders_swapped(job) == <<StartProcess(job), InitProcess(job)>>

\* send_order(OrderMessage::InitProcess(job.clone())), then
\* send_order(OrderMessage::StartProcess(job)).
send_orders(job) == <<InitProcess(job), StartProcess(job)>>

\* for source_order in &source_orders: read and parse the file (each with
\* unwrap), then send_order(InitProcess(job)) and send_order(StartProcess(job));
\* after the last file, return.
SdkSendOrders ==
  /\ program = "sdk"
  /\ sdk_pc = "for"
  /\ IF file_idx > Len(source_orders.files)
       THEN /\ sdk_pc' = "returned"
            /\ exit' = Return("done")
            /\ UNCHANGED <<orders, sent>>
       ELSE LET file == source_orders.files[file_idx] IN
              IF file.content # "ok"
                THEN /\ sdk_pc' = "panicked"
                     /\ exit' = Panic
                     /\ UNCHANGED <<orders, sent>>
                ELSE /\ sdk_pc' = "next_response"
                     /\ orders' = orders \o send_orders(file.job)
                     /\ sent' = sent \o send_orders(file.job)
                     /\ exit' = exit
  /\ UNCHANGED <<program, overrides, amqp_vars, call_vars, media, bound, describe, printed,
                 init_calls, source_orders, file_idx, exchange, responses,
                 observed, processor, progress, sdk_epoch, sdk_calls,
                 stop_epoch, locks>>

\* Mutant: the loop breaks on whatever response it reads.
SdkNextResponse_break_always ==
  /\ program = "sdk"
  /\ sdk_pc = "next_response"
  /\ responses # <<>>
  /\ LET response == Head(responses)
         terminal == TRUE
     IN /\ observed' = Append(observed, response)
        /\ file_idx' = IF terminal THEN file_idx + 1 ELSE file_idx
        /\ sdk_pc' = IF terminal THEN "for" ELSE "next_response"
  /\ responses' = Tail(responses)
  /\ UNCHANGED <<program, overrides, amqp_vars, call_vars, media, bound, describe, printed,
                 init_calls, source_orders, exchange, orders, processor,
                 progress, sdk_epoch, sdk_calls,
                 exit, stop_epoch, sent, locks>>

\* while let Ok(message) = local_exchange.next_response(): break on
\* Some(Completed(_)) | Some(Error(_)), go on reading otherwise.
SdkNextResponse ==
  /\ program = "sdk"
  /\ sdk_pc = "next_response"
  /\ responses # <<>>
  /\ LET response == Head(responses)
         terminal == response.type \in {"Completed", "Error"}
     IN /\ observed' = Append(observed, response)
        /\ file_idx' = IF terminal THEN file_idx + 1 ELSE file_idx
        /\ sdk_pc' = IF terminal THEN "for" ELSE "next_response"
  /\ responses' = Tail(responses)
  /\ UNCHANGED <<program, overrides, amqp_vars, call_vars, media, bound, describe, printed,
                 init_calls, source_orders, exchange, orders, processor,
                 progress, sdk_epoch, sdk_calls,
                 exit, stop_epoch, sent, locks>>

(* ----------------------- Processor (local exchange) -------------------- *)

\* Idle / InitProcess(j): on success emit Initialized; when the requirements
\* fail emit the requirements error and stay Idle.
ProcessorInit ==
  /\ program = "sdk"
  /\ exchange = "local"
  /\ processor.state = "idle"
  /\ orders # <<>>
  /\ Head(orders).type = "InitProcess"
  /\ LET j == Head(orders).job IN
       \E requirements_ok \in BOOLEAN :
         /\ responses' = Append(responses,
              IF requirements_ok THEN Initialized(j)
              ELSE Error(j, RequirementsError("e1")))
         /\ processor' = IF requirements_ok
                           THEN [state |-> "initialized", job |-> j]
                           ELSE Idle
  /\ orders' = Tail(orders)
  /\ UNCHANGED <<program, overrides, amqp_vars, call_vars, media, bound, sdk_pc, describe,
                 printed, init_calls, source_orders, file_idx, exchange,
                 observed, progress, sdk_epoch, sdk_calls,
                 exit, stop_epoch, sent, locks>>

\* Initialized / StartProcess(j): spawn the job and emit Started.
ProcessorStart ==
  /\ program = "sdk"
  /\ exchange = "local"
  /\ processor.state = "initialized"
  /\ orders # <<>>
  /\ Head(orders) = StartProcess(processor.job)
  /\ responses' = Append(responses, Started(processor.job))
  /\ processor' = [processor EXCEPT !.state = "running"]
  /\ progress' = 0
  /\ orders' = Tail(orders)
  /\ UNCHANGED <<program, overrides, amqp_vars, call_vars, media, bound, sdk_pc, describe,
                 printed, init_calls, source_orders, file_idx, exchange,
                 observed, sdk_epoch, sdk_calls,
                 exit, stop_epoch, sent, locks>>

\* Idle / StartProcess(j): the job was not initialized; the order has no
\* effect.
ProcessorSkip ==
  /\ program = "sdk"
  /\ exchange = "local"
  /\ processor.state = "idle"
  /\ orders # <<>>
  /\ Head(orders).type = "StartProcess"
  /\ orders' = Tail(orders)
  /\ UNCHANGED <<program, overrides, amqp_vars, call_vars, media, bound, sdk_pc, describe,
                 printed, init_calls, source_orders, file_idx, exchange,
                 responses, observed, processor, progress, sdk_epoch,
                 sdk_calls,
                 exit, stop_epoch, sent, locks>>

\* The running process call publishes a progression.
ProcessorProgression ==
  /\ program = "sdk"
  /\ exchange = "local"
  /\ processor.state = "running"
  /\ overrides
  /\ progress < MaxProgress
  /\ progress' = progress + 1
  /\ responses' = Append(responses, Progression(processor.job))
  /\ UNCHANGED <<program, overrides, amqp_vars, call_vars, media, bound, sdk_pc, describe,
                 printed, init_calls, source_orders, file_idx, exchange,
                 orders, observed, processor, sdk_epoch, sdk_calls,
                 exit, stop_epoch, sent, locks>>

\* The process call returns: emit Completed on Ok, Error otherwise; the job
\* leaves the active set.
ProcessorFinish ==
  /\ program = "sdk"
  /\ exchange = "local"
  /\ processor.state = "running"
  /\ LET j == processor.job IN
       \E r \in sdk_process("None", {}, JobResult(j)) :
         /\ sdk_calls' = Append(sdk_calls, [job |-> j, result |-> r])
         /\ responses' = Append(responses,
              IF r.kind = "Ok" THEN Completed(j) ELSE Error(j, r))
  /\ processor' = Idle
  /\ UNCHANGED <<program, overrides, amqp_vars, call_vars, media, bound, sdk_pc, describe,
                 printed, init_calls, source_orders, file_idx, exchange,
                 orders, observed, progress, sdk_epoch,
                 exit, stop_epoch, sent, locks>>

(* ------------------------ broker supervision loop ---------------------- *)

\* loop { .. }: RabbitmqExchange::new(..).await.unwrap().
SdkConnect ==
  /\ program = "sdk"
  /\ sdk_pc = "loop"
  /\ sdk_epoch < MaxEpochs
  /\ sdk_epoch' = sdk_epoch + 1
  /\ \E ok \in BOOLEAN :
       /\ sdk_pc' = IF ok THEN "bind" ELSE "panicked"
       /\ exchange' = IF ok THEN "rabbitmq" ELSE exchange
       /\ bound' = IF ok THEN <<>> ELSE bound
       /\ exit' = IF ok THEN exit ELSE Panic
  /\ UNCHANGED <<program, overrides, amqp_vars, call_vars, media, describe, printed,
                 init_calls, source_orders, file_idx, orders, responses,
                 observed, processor, progress, sdk_calls,
                 stop_epoch, sent, locks>>

\* The consumers start_worker binds, in the order of the code: the job orders
\* on the worker queue, then the control messages on the direct messaging
\* queue.
consumers ==
  << [queue |-> "amqp_queue", tag |-> "amqp_worker"],
     [queue |-> "direct_messaging_queue", tag |-> "status_amqp_worker"] >>

\* exchange.bind_consumer(queue, tag).await.unwrap(), for the next of the
\* consumers; after the last one the Processor is built.
SdkBindConsumer ==
  /\ program = "sdk"
  /\ sdk_pc = "bind"
  /\ \E ok \in BOOLEAN :
       /\ bound' = IF ok THEN Append(bound, consumers[Len(bound) + 1]) ELSE bound
       /\ sdk_pc' = IF ~ok THEN "panicked"
                    ELSE IF Len(bound) + 1 = Len(consumers) THEN "run" ELSE "bind"
       /\ exit' = IF ok THEN exit ELSE Panic
  /\ UNCHANGED <<program, overrides, amqp_vars, call_vars, media, describe, printed,
                 init_calls, source_orders, file_idx, exchange, orders,
                 responses, observed, processor, progress, sdk_epoch,
                 sdk_calls, stop_epoch, sent, locks>>

\* processor.run(shared_message_event.clone()).unwrap(): the run ends on
\* StopWorker (Ok) or on a transport error (Err).
SdkRun ==
  /\ program = "sdk"
  /\ sdk_pc = "run"
  /\ \E ok \in BOOLEAN :
       /\ sdk_pc' = IF ok THEN "sleep" ELSE "panicked"
       /\ stop_epoch' = IF ok THEN sdk_epoch ELSE stop_epoch
       /\ exit' = IF ok THEN exit ELSE Panic
  /\ UNCHANGED <<program, overrides, amqp_vars, call_vars, media, bound, describe, printed,
                 init_calls, source_orders, file_idx, exchange, orders,
                 responses, observed, processor, progress, sdk_epoch,
                 sdk_calls,
                 sent, locks>>

\* Mutant: the supervision loop starts again from message_event.init().
SdkSleep_reinit ==
  /\ program = "sdk"
  /\ sdk_pc = "sleep"
  /\ sdk_pc' = "init"
  /\ UNCHANGED <<program, overrides, amqp_vars, call_vars, media, bound, describe, printed,
                 init_calls, source_orders, file_idx, exchange, orders,
                 responses, observed, processor, progress, sdk_epoch,
                 sdk_calls,
                 exit, stop_epoch, sent, locks>>

\* thread::sleep(Duration::new(1, 0)); info!("Reconnection...")
SdkSleep ==
  /\ program = "sdk"
  /\ sdk_pc = "sleep"
  /\ sdk_pc' = "loop"
  /\ UNCHANGED <<program, overrides, amqp_vars, call_vars, media, bound, describe, printed,
                 init_calls, source_orders, file_idx, exchange, orders,
                 responses, observed, processor, progress, sdk_epoch,
                 sdk_calls,
                 exit, stop_epoch, sent, locks>>

(* ------------------------- the shared handler -------------------------- *)

\* The job tasks of the Processor: each job's processing body runs on its own
\* thread.
Threads == 1..MaxJobs

\* Mutant: every clone handed to a thread wraps its own mutex.
shared_message_event_per_clone(t) == t

\* let shared_message_event = Arc::new(Mutex::new(message_event)), and the
\* shared_message_event.clone() given to processor.run: every clone of the
\* Arc points to the one Mutex.
shared_message_event(t) == "message_event"

\* A job thread calls lock() on its clone to invoke a handler method. Jobs
\* are dispatched while processor.run is running.
HandlerCall(t) ==
  /\ program = "sdk"
  /\ sdk_pc = "run"
  /\ \A l \in locks : l[2] # t
  /\ locks' = locks \cup {<<shared_message_event(t), t, FALSE>>}
  /\ UNCHANGED <<program, overrides, amqp_vars, call_vars, media, bound, sdk_pc, describe,
                 printed, init_calls, source_orders, file_idx, exchange,
                 orders, responses, observed, processor, progress, sdk_epoch,
                 sdk_calls, exit, stop_epoch, sent>>

\* lock() returns the guard once no other guard of that mutex is alive; the
\* handler method then executes through the guard.
HandlerLock(t) ==
  /\ program = "sdk"
  /\ <<shared_message_event(t), t, FALSE>> \in locks
  /\ \A l \in locks : l[1] = shared_message_event(t) => ~l[3]
  /\ locks' = (locks \ {<<shared_message_event(t), t, FALSE>>})
                 \cup {<<shared_message_event(t), t, TRUE>>}
  /\ UNCHANGED <<program, overrides, amqp_vars, call_vars, media, bound, sdk_pc, describe,
                 printed, init_calls, source_orders, file_idx, exchange,
                 orders, responses, observed, processor, progress, sdk_epoch,
                 sdk_calls, exit, stop_epoch, sent>>

\* The handler method returns and the guard is dropped.
HandlerUnlock(t) ==
  /\ program = "sdk"
  /\ <<shared_message_event(t), t, TRUE>> \in locks
  /\ locks' = locks \ {<<shared_message_event(t), t, TRUE>>}
  /\ UNCHANGED <<program, overrides, amqp_vars, call_vars, media, bound, sdk_pc, describe,
                 printed, init_calls, source_orders, file_idx, exchange,
                 orders, responses, observed, processor, progress, sdk_epoch,
                 sdk_calls, exit, stop_epoch, sent>>

(* ---------------------- a direct call of process ----------------------- *)

\* Option<McaiChannel>
Channels == {"None", "Some"}

\* Values of the handler's parameters type.
Parameters == SUBSET {"p1", "p2"}

JobResults == [job_id : JobIds, status : {"unknown", "completed", "error"}]

\* custom_event.process(channel, parameters, job_result), as in the test
\* empty_message_event_impl.
CallProcess ==
  /\ program = "test"
  /\ \E c \in Channels, p \in Parameters, jr \in JobResults :
       /\ call_args' = [channel |-> c, parameters |-> p, job_result |-> jr]
       /\ call_ret' \in sdk_process(c, p, jr)
  /\ UNCHANGED <<program, overrides, amqp_vars, sdk_vars, media>>

(* ------------- create_xdcam_sample_file (media_source_test.rs) --------- *)

\* FFmpeg: AVERROR_EOF = -MKTAG('E','O','F',' '), AVERROR(EIO) = -5.
AVERROR_EOF == -541478725
AVERROR_EIO == -5

\* check_result!(ret): the function returns Err when ret is negative.
check_result(ret) == IF ret < 0 THEN "Err" ELSE "Ok"

\* avcodec_send_frame(codec_context, null): the first call puts the encoder
\* in draining mode and returns 0, later calls return AVERROR_EOF.
avcodec_send_frame_null(draining) == IF draining THEN AVERROR_EOF ELSE 0

\* Mutant: at the end of the stream the encoder reports success.
avcodec_receive_packet_ok_on_eof(buffered) == 0

\* avcodec_receive_packet(codec_context, packet) of a draining encoder: 0 with
\* one of the buffered packets, AVERROR_EOF when none is left.
avcodec_receive_packet(buffered) == IF buffered > 0 THEN 0 ELSE AVERROR_EOF

\* flush_encoder(format_context, video_encoder, false) on an encoder holding
\* `buffered` packets, av_write_frame returning ret_write: the result, and
\* what it leaves. A return of send_frame other than 0 and AVERROR_EOF goes
\* through check_result!.
flush_encoder(buffered, draining, ret_write) ==
  LET ret == avcodec_send_frame_null(draining)
      sent_ok == (ret = 0 \/ ret = AVERROR_EOF) \/ check_result(ret) = "Ok"
      ret_receive == avcodec_receive_packet(buffered)
      received == sent_ok /\ check_result(ret_receive) = "Ok"
      taken == IF received /\ buffered > 0 THEN 1 ELSE 0
  IN  [result |-> IF ~sent_ok THEN "Err"
                  ELSE IF ~received THEN "Err"
                  ELSE check_result(ret_write),
       buffered |-> buffered - taken,
       held |-> buffered,
       written |-> IF received /\ check_result(ret_write) = "Ok" THEN 1 ELSE 0]

\* The helper before it is called with nb_frames.
MediaStart(nb_frames) ==
  [pc |-> "frames", nb_frames |-> nb_frames, i |-> 0, buffered |-> 0,
   draining |-> FALSE, written |-> 0, flush_result |-> "Ok",
   flushes |-> <<>>, closed |-> FALSE]

\* for _i in 0..nb_frames { write_frame(..)?; }: the encoder takes the frame
\* and gives a packet back or keeps it (encode returns false); a packet is
\* written with av_write_frame, whose error ends the helper. After the last
\* frame: let mut flush_result = Ok(()).
write_frame ==
  /\ program = "media_test"
  /\ media.pc = "frames"
  /\ IF media.i < media.nb_frames
       THEN \E packet \in BOOLEAN, ret_write \in {0, AVERROR_EIO} :
              media' = [media EXCEPT
                !.i = @ + 1,
                !.buffered = IF packet THEN @ ELSE @ + 1,
                !.written = IF packet /\ check_result(ret_write) = "Ok"
                              THEN @ + 1 ELSE @,
                !.pc = IF packet /\ check_result(ret_write) = "Err"
                         THEN "failed" ELSE @]
       ELSE media' = [media EXCEPT !.pc = "flush", !.flush_result = "Ok"]
  /\ UNCHANGED <<program, overrides, amqp_vars, sdk_vars, call_vars>>

\* while flush_result.is_ok() { flush_result = flush_encoder(..); }
flush_loop ==
  /\ program = "media_test"
  /\ media.pc = "flush"
  /\ IF media.flush_result = "Ok"
       THEN \E ret_write \in {0, AVERROR_EIO} :
              LET f == flush_encoder(media.buffered, media.draining, ret_write) IN
                media' = [media EXCEPT
                  !.flush_result = f.result,
                  !.buffered = f.buffered,
                  !.draining = TRUE,
                  !.written = @ + f.written,
                  !.flushes = Append(@, [result |-> f.result, held |-> f.held,
                                         written |-> f.written])]
       ELSE media' = [media EXCEPT !.pc = "close"]
  /\ UNCHANGED <<program, overrides, amqp_vars, sdk_vars, call_vars>>

\* close_file(&format_context)?: av_write_trailer; then Ok(()).
close_file ==
  /\ program = "media_test"
  /\ media.pc = "close"
  /\ \E ret \in {0, AVERROR_EIO} :
       media' = [media EXCEPT
         !.closed = check_result(ret) = "Ok",
         !.pc = IF check_result(ret) = "Ok" THEN "returned" ELSE "failed"]
  /\ UNCHANGED <<program, overrides, amqp_vars, sdk_vars, call_vars>>

(* --------------------------- specification ---------------------------- *)

\* The job queue holds one order per job id; the body of the last one may be
\* invalid UTF-8.
InitialQueues ==
  {q \in [1..MaxJobs -> [job : JobIds, utf8 : BOOLEAN]] :
     /\ \A i \in 1..MaxJobs : q[i].job = i
     /\ \A i \in 1..(MaxJobs - 1) : q[i].utf8}

Init ==
  /\ program \in {"amqp_worker", "sdk", "test", "media_test"}
  /\ overrides \in BOOLEAN
  /\ pc = "connect"
  /\ epoch = 0
  /\ chan = "none"
  /\ qos = FALSE
  /\ job_queue \in (IF program = "amqp_worker" THEN InitialQueues ELSE {<<>>})
  /\ unacked = {}
  /\ stream = <<>>
  /\ message = 0
  /\ result = NoResult
  /\ published = FALSE
  /\ completed_queue = <<>>
  /\ error_queue = <<>>
  /\ deliveries = <<>>
  /\ hist = <<>>
  /\ amqp_uri = NoUri
  /\ setup = <<>>
  /\ sdk_pc = "config"
  /\ describe = "unset"
  /\ printed = "no"
  /\ init_calls = 0
  /\ source_orders = [set |-> FALSE, files |-> <<>>]
  /\ file_idx = 0
  /\ exchange = "none"
  /\ orders = <<>>
  /\ responses = <<>>
  /\ observed = <<>>
  /\ processor = [state |-> "none", job |-> 0]
  /\ progress = 0
  /\ sdk_epoch = 0
  /\ sdk_calls = <<>>
  /\ exit = NoExit
  /\ stop_epoch = 0
  /\ sent = <<>>
  /\ locks = {}
  /\ bound = <<>>
  /\ call_args = [channel |-> "None", parameters |-> {}, job_result |-> JobResult(1)]
  /\ call_ret = NoResult
  /\ media \in (IF program = "media_test"
                  THEN {MediaStart(n) : n \in 0..MaxFrames}
                  ELSE {MediaStart(0)})

Next ==
  \/ write_frame
  \/ flush_loop
  \/ close_file
  \/ ChannelSetup
  \/ SdkBindConsumer
  \/ \E t \in Threads : HandlerCall(t)
  \/ \E t \in Threads : HandlerLock(t)
  \/ \E t \in Threads : HandlerUnlock(t)
  \/ BuildUri
  \/ Connect
  \/ BrokerDeliver
  \/ ConnectionLost
  \/ Receive
  \/ Process
  \/ Publish
  \/ Settle
  \/ StreamEnd
  \/ Sleep
  \/ SdkConfigure
  \/ SdkDescribe
  \/ SdkInit
  \/ SdkMode
  \/ SdkSendOrders
  \/ SdkNextResponse
  \/ ProcessorInit
  \/ ProcessorStart
  \/ ProcessorSkip
  \/ ProcessorProgression
  \/ ProcessorFinish
  \/ SdkConnect
  \/ SdkRun
  \/ SdkSleep
  \/ CallProcess

Spec == Init /\ [][Next]_vars

\* The bootstrap thread and the task spawned for the Processor are both
\* scheduled, and a call of process returns.
FairSpec ==
  /\ Spec
  /\ WF_vars(SdkSendOrders)
  /\ WF_vars(SdkNextResponse)
  /\ WF_vars(ProcessorInit)
  /\ WF_vars(ProcessorStart)
  /\ WF_vars(ProcessorSkip)
  /\ WF_vars(ProcessorFinish)
  /\ WF_vars(write_frame)
  /\ WF_vars(flush_loop)
  /\ WF_vars(close_file)

(* ------------------------ reading the history ------------------------- *)

Delivs == 1..Len(deliveries)

\* The calls the closure made for delivery d, in order.
CallsOf(d) == SelectSeq(hist, LAMBDA e : e.d = d)
Settlements(d) == SelectSeq(hist, LAMBDA e : e.d = d /\ e.op \in {"ack", "reject"})
Publishes(d) == SelectSeq(hist, LAMBDA e : e.d = d /\ e.op = "publish")
PublishedOk(d) == SelectSeq(hist, LAMBDA e : e.d = d /\ e.op = "publish" /\ e.ok)

\* The handler returned a result for delivery d.
Returned(d) == \E i \in 1..Len(hist) : hist[i].d = d /\ hist[i].op = "process"
ResultOf(d) == SelectSeq(hist, LAMBDA e : e.d = d /\ e.op = "process")[1].arg

\* The closure has run to its end (Ok(())) for delivery d.
Finished(d) == Returned(d) /\ d # message

Acked(d) == \E i \in 1..Len(hist) : hist[i].d = d /\ hist[i].op = "ack"
Rejected(d) == \E i \in 1..Len(hist) : hist[i].d = d /\ hist[i].op = "reject"

\* The one settlement of d is a reject with requeue = true.
RejectedWithRequeue(d) ==
  /\ Len(Settlements(d)) = 1
  /\ Settlements(d)[1].op = "reject"
  /\ Settlements(d)[1].arg.requeue

\* The one settlement of d is an acknowledge.
AckedOnly(d) ==
  /\ Len(Settlements(d)) = 1
  /\ Settlements(d)[1].op = "ack"

(* ------------------------------- claims ------------------------------- *)

JobOf(d) == deliveries[d].order.job

\* Terminal responses (completed or error messages) the broker received for
\* the order of job j, over all its deliveries.
TerminalCount(j) ==
  Cardinality({i \in 1..Len(hist) :
                 hist[i].op = "publish" /\ hist[i].ok /\ JobOf(hist[i].d) = j})

\* The broker accepted an acknowledge for a delivery of job j.
JobAcked(j) ==
  \E i \in 1..Len(hist) : hist[i].op = "ack" /\ hist[i].ok /\ JobOf(hist[i].d) = j

\* C3 as stated: over deliveries, redeliveries, failed acknowledgements and
\* reconnect epochs the terminal responses published for a job are never more
\* than one, and are exactly one once the job's order is acknowledged.
C3_ExactlyOneTerminalPerJob ==
  \A j \in JobIds :
    /\ TerminalCount(j) <= 1
    /\ JobAcked(j) => TerminalCount(j) = 1

\* C3 as amended: one handling of a delivery publishes at most one terminal
\* response, and exactly one was published for an acknowledged delivery; the
\* count per job is not bounded by one (see the witness).
C3_AtMostOneTerminalPerDelivery ==
  \A d \in Delivs :
    /\ Len(Publishes(d)) <= 1
    /\ Acked(d) => Len(PublishedOk(d)) = 1

\* C3 witness: a job was delivered twice and a terminal response was
\* published for each of the two deliveries.
C3_Witness ==
  \E d1, d2 \in Delivs :
    /\ d1 < d2
    /\ JobOf(d1) = JobOf(d2)
    /\ PublishedOk(d1) # <<>>
    /\ PublishedOk(d2) # <<>>
    /\ TerminalCount(JobOf(d1)) = 2

\* The bodies the broker accepted on queue q, in order.
AcceptedOn(q) ==
  LET es == SelectSeq(hist, LAMBDA e : e.op = "publish" /\ e.ok /\ e.arg.queue = q)
  IN [i \in 1..Len(es) |-> es[i].arg.body]

\* C5: when the handler returned Ok(N) and the publish succeeded, the one
\* message published for the delivery went to the completed queue with
\* job_id N and status completed, nothing went to the error queue, and the
\* delivery was acknowledged and not rejected.
C5_OkPublishesCompletedAndAcks ==
  /\ completed_queue = AcceptedOn("completed")
  /\ \A d \in Delivs :
       (Returned(d) /\ ResultOf(d).kind = "Ok") =>
         /\ \A i \in 1..Len(Publishes(d)) :
              Publishes(d)[i].arg =
                [queue |-> "completed",
                 body |-> [job_id |-> ResultOf(d).job_id, status |-> "completed"]]
         /\ (Finished(d) /\ PublishedOk(d) # <<>>) =>
              /\ Len(Publishes(d)) = 1
              /\ AckedOnly(d)

\* C5 witness: the handler returned Ok(2), the completed message was
\* published and the delivery acknowledged.
C5_Witness ==
  \E d \in Delivs :
    /\ Finished(d)
    /\ ResultOf(d) = Ok(2)
    /\ PublishedOk(d) # <<>>
    /\ Acked(d)
    /\ completed_queue # <<>>

\* The error message the claim expects for a handler error.
ExpectedErrorBody(r) ==
  IF r.kind = "ProcessingError"
    THEN [status |-> "error", job_id |-> r.job_id, message |-> r.msg]
    ELSE [status |-> "error", message |-> r.msg]

\* C6 as stated: whenever the handler returned ProcessingError or
\* RuntimeError, one error message was published to the error queue and the
\* delivery was acknowledged.
C6_ErrorPublishedAndAcked ==
  \A d \in Delivs :
    (Finished(d) /\ ResultOf(d).kind \in {"ProcessingError", "RuntimeError"}) =>
      /\ Len(PublishedOk(d)) = 1
      /\ PublishedOk(d)[1].arg = [queue |-> "error", body |-> ExpectedErrorBody(ResultOf(d))]
      /\ AckedOnly(d)

\* C6 as amended: for ProcessingError(job_id, message) the one message
\* published carries that job_id and message, for RuntimeError(message) it
\* carries the message and no job_id; it goes to the error queue, never to
\* the completed queue; the delivery is acknowledged when the publish
\* succeeded and rejected with requeue when it failed.
C6_ErrorPublishedThenAckedIfPublished ==
  /\ error_queue = AcceptedOn("error")
  /\ \A d \in Delivs :
       (Returned(d) /\ ResultOf(d).kind \in {"ProcessingError", "RuntimeError"}) =>
         /\ \A i \in 1..Len(Publishes(d)) :
              /\ Publishes(d)[i].arg.queue = "error"
              /\ Publishes(d)[i].arg.body = ExpectedErrorBody(ResultOf(d))
              /\ ResultOf(d).kind = "RuntimeError" =>
                   "job_id" \notin DOMAIN Publishes(d)[i].arg.body
         /\ Finished(d) =>
              /\ Len(Publishes(d)) = 1
              /\ PublishedOk(d) # <<>> => AckedOnly(d)
              /\ PublishedOk(d) = <<>> => RejectedWithRequeue(d)

\* C6 witness: a ProcessingError and a RuntimeError were each published to
\* the error queue and their deliveries acknowledged.
C6_Witness ==
  \E d1, d2 \in Delivs :
    /\ Finished(d1) /\ ResultOf(d1).kind = "ProcessingError"
    /\ PublishedOk(d1) # <<>> /\ Acked(d1)
    /\ Finished(d2) /\ ResultOf(d2).kind = "RuntimeError"
    /\ PublishedOk(d2) # <<>> /\ Acked(d2)

(* --------------------- reading the response channel ------------------- *)

\* Every response sent on the LocalExchange so far: those next_response()
\* has returned, then those still in the channel.
Emitted == observed \o responses

\* The responses for job j, in the order of the channel.
ResponsesOf(j) == SelectSeq(Emitted, LAMBDA m : m.job = j)

IsTerminal(m) == m.type \in {"Completed", "Error"}

C7_RequirementsErrorRequeues ==
  /\ \A d \in Delivs :
       (Returned(d) /\ ResultOf(d).kind = "RequirementsError") =>
         /\ Publishes(d) = <<>>
         /\ ~Acked(d)
         /\ Finished(d) => RejectedWithRequeue(d)
  /\ \A i \in 1..Len(Emitted) :
       (Emitted[i].type = "Error" /\ Emitted[i].error.kind = "RequirementsError") =>
         \A k \in 1..Len(Emitted) : Emitted[k] # Completed(Emitted[i].job)

\* C7 witness: a delivery with a requirements error was rejected.
C7_Witness ==
  \E d \in Delivs :
    /\ Finished(d)
    /\ ResultOf(d).kind = "RequirementsError"
    /\ Rejected(d)
    /\ completed_queue = <<>>

\* C8: when process returned NotImplemented, the delivery is rejected with
\* requeue = true, never acknowledged, and nothing is published to the
\* completed queue for it; on the response channel of the SDK the order gets
\* a terminal Error carrying NotImplemented and no Completed.
C8_NotImplementedRequeues ==
  /\ \A d \in Delivs :
       (Returned(d) /\ ResultOf(d) = NotImplemented) =>
         /\ Publishes(d) = <<>>
         /\ ~Acked(d)
         /\ Finished(d) => RejectedWithRequeue(d)
  /\ \A k \in 1..Len(sdk_calls) :
       sdk_calls[k].result = NotImplemented =>
         LET rs == ResponsesOf(sdk_calls[k].job) IN
           /\ rs[Len(rs)] = Error(sdk_calls[k].job, NotImplemented)
           /\ \A i \in 1..Len(rs) : rs[i].type # "Completed"

\* C8 witness: a handler that does not override process had a delivery
\* rejected.
C8_Witness ==
  \E d \in Delivs :
    /\ ~overrides
    /\ Finished(d)
    /\ ResultOf(d) = NotImplemented
    /\ Rejected(d)

\* C9: a handler that does not override process returns NotImplemented from
\* every call of process, whatever the channel, the parameters, the job
\* result or the message, and never Ok.
C9_DefaultProcessNotImplemented ==
  ~overrides =>
    /\ (program = "test" /\ call_ret # NoResult) => call_ret = NotImplemented
    /\ \A k \in 1..Len(sdk_calls) : sdk_calls[k].result = NotImplemented
    /\ \A d \in Delivs : Returned(d) => ResultOf(d) = NotImplemented

\* C9 witness: the default process was called with a channel and returned
\* NotImplemented.
C9_Witness ==
  /\ program = "test"
  /\ ~overrides
  /\ call_args.channel = "Some"
  /\ call_args.parameters # {}
  /\ call_ret = NotImplemented

\* The order of delivery d is still with the broker (ready or unsettled), or
\* was delivered again since.
NotLost(d) ==
  \/ \E i \in 1..Len(job_queue) : job_queue[i].job = JobOf(d)
  \/ \E u \in unacked : JobOf(u) = JobOf(d)
  \/ \E d2 \in Delivs : d2 > d /\ JobOf(d2) = JobOf(d)

\* C10: a delivery whose publish of the completed or error message failed is
\* never acknowledged; the closure ends by rejecting it with requeue = true,
\* and its order stays with the broker for a further delivery.
C10_FailedPublishRequeues ==
  \A d \in Delivs :
    (Publishes(d) # <<>> /\ PublishedOk(d) = <<>>) =>
      /\ ~Acked(d)
      /\ Finished(d) => (RejectedWithRequeue(d) /\ NotLost(d))

\* C10 witness: the publish of a delivery failed, the delivery was rejected
\* and its order was delivered a second time.
C10_Witness ==
  \E d, d2 \in Delivs :
    /\ Finished(d)
    /\ Publishes(d) # <<>> /\ PublishedOk(d) = <<>>
    /\ Rejected(d)
    /\ d2 > d /\ JobOf(d2) = JobOf(d) /\ Returned(d2)

(* ------------------------- the supervision loop ----------------------- *)

\* The SDK's start_worker runs in broker mode: no source orders, and the
\* supervision loop was entered.
BrokerMode == program = "sdk" /\ ~source_orders.set /\ sdk_epoch > 0

\* C11: in broker mode a broker error in a pass of the loop (the exchange
\* cannot be constructed, a consumer cannot be bound, the run of the
\* processor ends with a transport error) does not end the worker: the
\* bootstrap goes on to its sleep and to the next pass.
C11_BrokerErrorReconnects ==
  BrokerMode => sdk_pc # "panicked"

\* C12: in broker mode, once a StopWorker order has ended the run of the
\* processor, the worker terminates: no further pass of the supervision loop
\* (no new connection) is started after the pass in which the run ended.
C12_StopWorkerTerminates ==
  (BrokerMode /\ stop_epoch # 0) => sdk_epoch = stop_epoch

(* ------------------------------ startup ------------------------------- *)

\* start_worker has gone past its test of DESCRIBE.
DescribeRead == program = "sdk" /\ sdk_pc \notin {"config", "describe"} /\ exit.cause # "config"

\* The values of DESCRIBE the claim calls truthy.
Truthy(v) == v \in {"1", "true", "True", "TRUE"}

\* Nothing of the worker has started: init() was not called, no exchange was
\* constructed and no order was sent.
NothingStarted ==
  /\ init_calls = 0
  /\ exchange = "none"
  /\ sent = <<>>
  /\ orders = <<>>
  /\ sdk_epoch = 0

\* C13 as stated: whenever DESCRIBE is truthy, start_worker prints the
\* configuration and returns with nothing started; when DESCRIBE is unset or
\* not truthy, nothing is printed and startup goes on.
C13_DescribePrintsAndExits ==
  DescribeRead =>
    /\ Truthy(describe) =>
         (printed = "yes" /\ sdk_pc = "returned" /\ NothingStarted)
    /\ ~Truthy(describe) => (printed = "no" /\ exit.cause # "describe")

\* C13 as amended: DESCRIBE is acted on exactly when it is truthy; when the
\* configuration was printed, start_worker has returned from there with
\* nothing started; when DESCRIBE is truthy and the serialization failed, the
\* error is logged, nothing is printed and start_worker does not return from
\* there; when DESCRIBE is unset or not truthy nothing is printed or logged
\* and start_worker does not return from there.
C13_DescribePrintsAndExitsIfSerialized ==
  /\ printed # "no" => DescribeRead
  /\ DescribeRead =>
       /\ Truthy(describe) <=> printed # "no"
       /\ printed = "yes" <=> exit.cause = "describe"
       /\ printed = "yes" => (sdk_pc = "returned" /\ NothingStarted)

\* C13 witness: DESCRIBE=TRUE, the configuration was printed and
\* start_worker returned.
C13_Witness ==
  /\ describe = "TRUE"
  /\ printed = "yes"
  /\ sdk_pc = "returned"
  /\ init_calls = 0

\* C14: message_event.init() is called at most once in a run of
\* start_worker; it was called (once) before any exchange is constructed,
\* before any order is sent or handled and before the first pass of the
\* supervision loop, and the later passes do not call it again.
C14_InitOnce ==
  program = "sdk" =>
    /\ init_calls <= 1
    /\ (\/ exchange # "none"
        \/ sent # <<>>
        \/ sdk_calls # <<>>
        \/ Emitted # <<>>
        \/ sdk_epoch > 0) => init_calls = 1

\* C14 witness: the supervision loop is in its second pass and init() was
\* called once.
C14_Witness ==
  /\ BrokerMode
  /\ sdk_epoch >= 2
  /\ exchange = "rabbitmq"
  /\ init_calls = 1

\* C15: the exit status tells the ways of stopping apart: 0 after a printed
\* DESCRIBE and after a clean end, 1 when the worker configuration cannot be
\* built, 2 when message_event.init() fails.
C15_ExitStatusDistinguishes ==
  /\ exit.cause \in {"describe", "done"} => exit.status = 0
  /\ exit.cause = "config" => exit.status = 1
  /\ exit.cause = "init" => exit.status = 2

(* ----------------------------- local replay --------------------------- *)

LocalMode == program = "sdk" /\ source_orders.set

\* The files whose orders were sent.
FilesSent == Len(sent) \div 2

\* The terminal responses next_response() has returned, in order.
TerminalsRead == SelectSeq(observed, IsTerminal)

C18_NoErrorStopsWorker ==
  /\ LocalMode => (exit.cause # "panic" /\ sdk_pc # "panicked")
  /\ program = "amqp_worker" => pc # "panicked"

\* C17: in local replay, under fair scheduling, the orders sent for a file
\* are eventually followed by a terminal response read by the bootstrap, and
\* start_worker eventually returns, having read a terminal response for
\* every file of the list.
C17_LocalReplayTerminates ==
  /\ \A k \in 1..MaxFiles :
       (LocalMode /\ FilesSent >= k) ~> (Len(TerminalsRead) >= k)
  /\ LocalMode ~>
       (sdk_pc = "returned" /\ Len(TerminalsRead) = Len(source_orders.files))

\* C17, the part that holds under FairSpec: the orders sent for a file are
\* eventually followed by a terminal response read by the bootstrap, and when
\* every file of the list can be read and parsed start_worker eventually
\* returns, having read one terminal response per file.
C17_ReadableFilesTerminate ==
  /\ \A k \in 1..MaxFiles :
       (LocalMode /\ FilesSent >= k) ~> (Len(TerminalsRead) >= k)
  /\ (LocalMode /\ \A i \in 1..Len(source_orders.files) :
                     source_orders.files[i].content = "ok") ~>
       (sdk_pc = "returned" /\ Len(TerminalsRead) = Len(source_orders.files))

(* ------------------------------ AMQP_TLS ------------------------------ *)

\* C19: the connection a pass opens uses the scheme AMQPS exactly when
\* AMQP_TLS is one of true, 1, TRUE, True, and the scheme AMQP otherwise,
\* also when AMQP_TLS is unset.
C19_TlsSelectsScheme ==
  (program = "amqp_worker" /\ pc = "connect_uri") =>
    amqp_uri.scheme =
      (IF amqp_uri.env \in {"true", "1", "TRUE", "True"} THEN "AMQPS" ELSE "AMQP")

(* --------------------------- handler mutex ----------------------------- *)

\* The threads executing a handler method: those whose guard is alive.
Executing == {l[2] : l \in {k \in locks : k[3]}}

\* C20: the one handler is behind one mutex for all jobs and all passes of
\* the supervision loop, so at most one handler method invocation is
\* executing at any time.
C20_HandlerCallsNeverOverlap == Cardinality(Executing) <= 1

\* A pass after a reconnection in which one job thread executes a handler
\* method while another one is blocked in lock().
C20_Witness ==
  /\ sdk_epoch > 1
  /\ Cardinality(Executing) = 1
  /\ \E l \in locks : ~l[3] /\ l[2] \notin Executing

(* ------------------------ one delivery at a time ------------------------ *)

\* The closure of for_each was started on delivery d.
Dispatched(d) == d = message \/ Returned(d)

\* The deliveries the closure was started on and for which it has issued
\* neither basic_ack nor basic_reject.
InHand == {d \in Delivs : Dispatched(d) /\ Settlements(d) = <<>>}

\* C21 (as stated): at most one delivery is unsettled at any time, also when
\* basic_qos(1) failed.
C21_AtMostOneUnsettled ==
  program = "amqp_worker" => Cardinality(unacked) <= 1

\* C21: the worker has at most one delivery in hand, the one its closure is
\* running on: it starts on the next delivery only after it issued the
\* acknowledge or reject of the previous one, whether or not basic_qos(1)
\* took effect; the broker holds at most one unsettled delivery when
\* basic_qos(1) took effect.
C21_OneDeliveryInHand ==
  program = "amqp_worker" =>
    /\ \A d \in Delivs :
         (d # message /\ Returned(d)) => Settlements(d) # <<>>
    /\ qos => Cardinality(unacked) <= 1

\* basic_qos failed, the broker has pushed a second delivery while the
\* closure runs on the first, which has returned from process and is not
\* settled yet; the second waits in the stream.
C21_Witness ==
  /\ program = "amqp_worker"
  /\ ~qos
  /\ message = 1
  /\ pc = "settle"
  /\ unacked = {1, 2}
  /\ stream = <<2>>
  /\ InHand = {1}

(* --------------------------- one dispatch ------------------------------- *)

\* The calls of MessageEvent::process the closure made for delivery d.
ProcessCalls(d) == SelectSeq(hist, LAMBDA e : e.d = d /\ e.op = "process")

\* The closure was started on delivery d and runs no more: it returned, or
\* it panicked.
ClosureOver(d) == Dispatched(d) /\ (d # message \/ pc = "panicked")

\* Delivery d was never given to the handler twice, and each publish,
\* acknowledge or reject for it comes after its call of process returned.
DispatchedOnceFirst(d) ==
  /\ Len(ProcessCalls(d)) <= 1
  /\ \A i \in 1..Len(hist) :
       (hist[i].d = d /\ hist[i].op # "process") =>
         \E j \in 1..(i - 1) : hist[j].d = d /\ hist[j].op = "process"

\* C22: for every delivery the closure received, process is invoked exactly
\* once, the invocation completes before any publish, acknowledge or reject
\* for the delivery, and the delivery is never dispatched a second time.
C22_ProcessExactlyOnce ==
  program = "amqp_worker" =>
    \A d \in Delivs :
      /\ DispatchedOnceFirst(d)
      /\ ClosureOver(d) => Len(ProcessCalls(d)) = 1

\* What holds of the dispatch: at most once, before every other call for the
\* delivery, and exactly once for a delivery the closure returned from.
C22_AtMostOnceAndFirst ==
  program = "amqp_worker" =>
    \A d \in Delivs :
      /\ DispatchedOnceFirst(d)
      /\ (Dispatched(d) /\ d # message) => Len(ProcessCalls(d)) = 1

(* ------------------------- setup before consuming ----------------------- *)

\* The job, completed and error queues were declared on the channel before
\* its consumer was started: each queue_declare is at a position of `setup`
\* before the first basic_consume.
DeclaredBeforeConsume ==
  \E j \in 1..Len(setup) :
    /\ setup[j] = basic_consume("amqp_worker")
    /\ \A k \in 1..(j - 1) : setup[k].op # "basic_consume"
    /\ \A q \in {"amqp_queue", "amqp_completed_queue", "amqp_error_queue"} :
         \E i \in 1..(j - 1) : setup[i] = queue_declare(q)

\* C23: in every pass the consuming side starts only after the setup. In the
\* AMQP worker an order is delivered or handled only on a channel whose job,
\* completed and error queues were declared before basic_consume; in the SDK
\* the processor runs only after the consumer "amqp_worker" on the worker
\* queue and then the consumer "status_amqp_worker" on the direct messaging
\* queue were bound on the exchange of that pass.
C23_SetupBeforeConsuming ==
  /\ (program = "amqp_worker"
        /\ (Consuming \/ unacked # {} \/ stream # <<>>
              \/ pc \in {"listen", "process", "publish", "settle"}))
       => DeclaredBeforeConsume
  /\ (program = "sdk" /\ sdk_pc = "run")
       => /\ exchange = "rabbitmq"
          /\ Len(bound) = 2
          /\ bound[1] = [queue |-> "amqp_queue", tag |-> "amqp_worker"]
          /\ bound[2] = [queue |-> "direct_messaging_queue",
                         tag |-> "status_amqp_worker"]

\* A second pass of the AMQP worker that has declared its queues again and
\* is handling an order.
C23_Witness ==
  /\ program = "amqp_worker"
  /\ epoch = 2
  /\ pc = "process"
  /\ DeclaredBeforeConsume

\* A second pass of the SDK whose processor runs with both consumers bound.
C23_WitnessSdk ==
  /\ program = "sdk"
  /\ sdk_epoch = 2
  /\ sdk_pc = "run"
  /\ Len(bound) = 2

(* ----------------------- local replay or broker ------------------------- *)

\* start_worker has touched the broker side: a RabbitmqExchange was
\* constructed, a consumer was bound, or the supervision loop was entered.
BrokerSide ==
  \/ exchange = "rabbitmq"
  \/ bound # <<>>
  \/ sdk_epoch > 0
  \/ sdk_pc \in {"loop", "bind", "run", "sleep"}

\* start_worker has touched the local replay: a LocalExchange was
\* constructed, or an order was sent to it or a response read from it.
LocalSide ==
  \/ exchange = "local"
  \/ sent # <<>> \/ orders # <<>> \/ responses # <<>> \/ observed # <<>>
  \/ sdk_pc \in {"for", "next_response"}

\* C24: when SOURCE_ORDERS is set, start_worker never constructs a broker
\* exchange, never binds a consumer and never enters the reconnect loop; the
\* local replay and the broker supervision loop never both happen in a run.
C24_LocalReplayExcludesBroker ==
  program = "sdk" =>
    /\ source_orders.set => ~BrokerSide
    /\ ~(LocalSide /\ BrokerSide)

\* The local replay of two files has ended and start_worker has returned
\* without touching the broker side.
C24_Witness ==
  /\ LocalMode
  /\ exit = Return("done")
  /\ Len(TerminalsRead) = 2
  /\ ~BrokerSide

(* ------------------------ fatal startup errors -------------------------- *)

\* Nothing of an exchange, a processor or an order exists: no exchange was
\* constructed, no processor spawned or run, no consumer bound, no order
\* sent, consumed or answered, no handler method called by a job.
NothingRan ==
  /\ exchange = "none"
  /\ processor.state = "none"
  /\ bound = <<>>
  /\ sdk_epoch = 0
  /\ sent = <<>> /\ orders = <<>> /\ responses = <<>> /\ observed = <<>>
  /\ sdk_calls = <<>>
  /\ locks = {}

\* C25: when WorkerConfiguration::new fails or init() returns an error,
\* start_worker returns and no exchange was constructed, no processor
\* spawned, and no order consumed, acknowledged or rejected.
C25_StartupErrorReturnsEarly ==
  (program = "sdk" /\ exit.cause \in {"config", "init"}) =>
    /\ sdk_pc = "returned"
    /\ NothingRan

\* init() was called once and returned an error; start_worker has returned.
C25_Witness ==
  /\ program = "sdk"
  /\ exit = Return("init")
  /\ init_calls = 1
  /\ sdk_pc = "returned"
  /\ NothingRan

(* --------------------------- encoder flush loop ------------------------- *)

\* The calls of flush_encoder made so far.
Flushes == media.flushes

\* C26: after the end of the input a call of flush_encoder returns Ok only
\* while the encoder still holds a buffered packet, and then writes one; it
\* returns an error once the encoder is drained; each call finds one packet
\* less, so the loop makes at most one call more than the packets the encoder
\* held at the end of the input; close_file is reached only after the loop
\* has ended on an error, and the helper returns Ok only with the file closed.
C26_FlushLoopTerminates ==
  program = "media_test" =>
    /\ \A k \in 1..Len(Flushes) :
         /\ Flushes[k].result = "Ok" => (Flushes[k].held > 0 /\ Flushes[k].written = 1)
         /\ Flushes[k].held = 0 => Flushes[k].result = "Err"
         /\ k > 1 => /\ Flushes[k - 1].result = "Ok"
                     /\ Flushes[k].held = Flushes[k - 1].held - 1
    /\ Flushes # <<>> => Len(Flushes) <= Flushes[1].held + 1
    /\ Len(Flushes) <= media.nb_frames + 1
    /\ media.pc \in {"close", "returned"} =>
         /\ Flushes # <<>>
         /\ Flushes[Len(Flushes)].result = "Err"
         /\ media.flush_result = "Err"
    /\ media.pc = "returned" => media.closed
    /\ media.closed => media.pc = "returned"

\* The encoder held two packets at the end of the input: two calls wrote one
\* each, the third found the encoder drained and ended the loop, and the
\* file was closed.
C26_Witness ==
  /\ program = "media_test"
  /\ media.pc = "returned"
  /\ media.closed
  /\ Len(Flushes) = 3
  /\ Flushes[1].held = 2
  /\ Flushes[1].result = "Ok" /\ Flushes[2].result = "Ok"
  /\ Flushes[3] = [result |-> "Err", held |-> 0, written |-> 0]

\* Under fair scheduling of the helper the flush loop ends and close_file is
\* reached.
C26_FlushLoopEnds ==
  (program = "media_test" /\ media.pc = "flush") ~> (media.pc = "close")

=============================================================================
